---- MODULE Spec2Model ----
(***************************************************************************)
(* Model of the operation-lifecycle reconciler of the MongoDB Atlas        *)
(* service broker (package broker: Provision, Update, Deprovision,         *)
(* LastOperation and their helpers) running against the remote Atlas       *)
(* cluster list.                                                           *)
(*                                                                         *)
(* Strings whose characters matter (instance IDs, cluster names) are       *)
(* sequences of one-character strings, so that len() and name[0:23] are    *)
(* computed as the code computes them.  Raw JSON documents are modelled by *)
(* their shape: empty byte slice, malformed, or an object with the fields  *)
(* the code reads.                                                         *)
(***************************************************************************)
EXTENDS Integers, Sequences, FiniteSets, TLC

VARIABLES
    clusters,       \* the remote cluster list, in the order GetClusters returns it
    provisioned,    \* instance IDs for which a Provision was accepted
    deprovisioned,  \* instance IDs for which a Deprovision was accepted
    last            \* the broker call that produced this state, with its result

vars == <<clusters, provisioned, deprovisioned, last>>

----------------------------------------------------------------------------
(* Bounds of the model *)

\* longest instance ID drawn
MaxIdLen == 24
\* most clusters the remote list holds
MaxClusters == 2

----------------------------------------------------------------------------
(* Constants of the program *)

OperationProvision == "provision"
OperationDeprovision == "deprovision"
OperationUpdate == "update"

maximumNameLength == 23

ClusterStateIdle == "IDLE"
ClusterStateCreating == "CREATING"
ClusterStateUpdating == "UPDATING"
ClusterStateDeleting == "DELETING"
ClusterStateDeleted == "DELETED"
ClusterStateRepairing == "REPAIRING"

ClusterStates ==
    {ClusterStateIdle, ClusterStateCreating, ClusterStateUpdating,
     ClusterStateDeleting, ClusterStateDeleted, ClusterStateRepairing}

\* brokerapi.LastOperationState values
InProgress == "in progress"
Succeeded == "succeeded"
Failed == "failed"

\* error values
NoError == "nil"
ErrAsyncRequired == "ErrAsyncRequired"
ErrInstanceDoesNotExist == "ErrInstanceDoesNotExist"
ErrJSON == "json error"
ErrCatalog == "catalog error"
ErrList == "list error"
ErrAtlasAPI == "atlas api error"
Panic == "panic"

----------------------------------------------------------------------------
(* Strings *)

Rep(c, n) == [i \in 1..n |-> c]

EmptyString == <<>>

\* name[0:n]
Prefix(s, n) == [i \in 1..n |-> s[i]]

NormalizeClusterNameNoTruncate(name) == name

\* NormalizeClusterName truncates a name to maximumNameLength characters.
NormalizeClusterName(name) ==
    IF Len(name) > maximumNameLength
    THEN Prefix(name, maximumNameLength)
    ELSE name

----------------------------------------------------------------------------
(* Data *)

\* a nil *atlas.ProviderSettings
NoProvider ==
    [set |-> FALSE, ProviderName |-> "", InstanceSizeName |-> "", RegionName |-> ""]

\* atlas.Cluster{}: the zero value.  Label is the value of the InstanceIDLabel
\* label ("" when the label is absent); Pending is state of the remote system
\* only (an update it has accepted and not yet started).
EmptyCluster ==
    [Name |-> EmptyString, Label |-> EmptyString, StateName |-> "",
     ProviderSettings |-> NoProvider, Pending |-> FALSE]

\* cluster.SetLabel(InstanceIDLabel, value)
SetLabel(cluster, value) == [cluster EXCEPT !.Label = value]

\* cluster.GetLabel(InstanceIDLabel)
GetLabel(cluster) == cluster.Label

\* The service catalog: one provider per service, one instance size per plan.
CatalogProviders == {[ServiceID |-> "aosb-aws", Name |-> "AWS"]}

CatalogPlans == {[Provider |-> "AWS", PlanID |-> "aosb-aws-m10", Name |-> "M10"]}

findProviderByServiceID(serviceID) ==
    LET found == {p \in CatalogProviders : p.ServiceID = serviceID}
    IN  IF found = {}
        THEN [err |-> ErrCatalog, Name |-> ""]
        ELSE [err |-> NoError, Name |-> (CHOOSE p \in found : TRUE).Name]

findInstanceSizeByPlanID(provider, planID) ==
    LET found == {p \in CatalogPlans : p.Provider = provider.Name /\ p.PlanID = planID}
    IN  IF found = {}
        THEN [err |-> ErrCatalog, Name |-> ""]
        ELSE [err |-> NoError, Name |-> (CHOOSE p \in found : TRUE).Name]

\* Raw user parameters, by shape: form "empty" is a zero-length byte slice,
\* "malformed" is not JSON, "null" is {"cluster": null}, "object" is
\* {"cluster": {...}} with the fields below (hasProvider: a providerSettings
\* object is given).
RawParams(form, name, hasProvider, providerName, instanceSizeName, regionName) ==
    [form |-> form, Name |-> name, hasProvider |-> hasProvider,
     ProviderName |-> providerName, InstanceSizeName |-> instanceSizeName,
     RegionName |-> regionName]

\* Raw request context, by shape: "empty", "malformed" or an "object" with
\* instance_name (the empty string when the key is absent).
RawContext(form, instanceName) == [form |-> form, instance_name |-> instanceName]

\* json.Unmarshal(rawParams, &params) on params{Cluster: &atlas.Cluster{}}
UnmarshalParams(rawParams) ==
    CASE rawParams.form = "malformed" ->
            [err |-> ErrJSON, isNil |-> TRUE, cluster |-> EmptyCluster]
      [] rawParams.form = "null" ->
            [err |-> NoError, isNil |-> TRUE, cluster |-> EmptyCluster]
      [] OTHER ->
            [err |-> NoError, isNil |-> FALSE,
             cluster |->
                [EmptyCluster EXCEPT
                    !.Name = rawParams.Name,
                    !.ProviderSettings =
                        IF rawParams.hasProvider
                        THEN [set |-> TRUE,
                              ProviderName |-> rawParams.ProviderName,
                              InstanceSizeName |-> rawParams.InstanceSizeName,
                              RegionName |-> rawParams.RegionName]
                        ELSE NoProvider]]

ParamsResult(err, isNil, cluster) == [err |-> err, isNil |-> isNil, cluster |-> cluster]

\* the plan branch of clusterFromParams
ApplyPlan(parsed, serviceID, planID) ==
    LET provider == findProviderByServiceID(serviceID)
        instanceSize == findInstanceSizeByPlanID(provider, planID)
    IN  CASE provider.err # NoError -> ParamsResult(provider.err, TRUE, EmptyCluster)
          [] instanceSize.err # NoError -> ParamsResult(instanceSize.err, TRUE, EmptyCluster)
          [] parsed.isNil -> ParamsResult(Panic, TRUE, EmptyCluster)
          [] OTHER ->
                ParamsResult(NoError, FALSE,
                    [parsed.cluster EXCEPT
                        !.ProviderSettings =
                            [@ EXCEPT !.set = TRUE,
                                      !.ProviderName = provider.Name,
                                      !.InstanceSizeName = instanceSize.Name]])

clusterFromParamsKeepUser(serviceID, planID, rawParams) ==
    LET parsed == IF rawParams.form = "empty"
                  THEN ParamsResult(NoError, FALSE, EmptyCluster)
                  ELSE UnmarshalParams(rawParams)
        planned == ApplyPlan(parsed, serviceID, planID)
    IN  CASE parsed.err # NoError -> parsed
          [] planID # "" /\ planned.err = NoError /\ parsed.cluster.ProviderSettings.set ->
                parsed
          [] planID # "" -> planned
          [] OTHER -> parsed

clusterFromParamsAlwaysProvider(serviceID, planID, rawParams) ==
    LET parsed == IF rawParams.form = "empty"
                  THEN ParamsResult(NoError, FALSE, EmptyCluster)
                  ELSE UnmarshalParams(rawParams)
    IN  CASE parsed.err # NoError -> parsed
          [] planID # "" -> ApplyPlan(parsed, serviceID, planID)
          [] parsed.isNil -> parsed
          [] OTHER ->
                ParamsResult(NoError, FALSE,
                    [parsed.cluster EXCEPT !.ProviderSettings = [@ EXCEPT !.set = TRUE]])

\* clusterFromParams builds a cluster from service, plan and raw parameters.
clusterFromParams(serviceID, planID, rawParams) ==
    LET parsed == IF rawParams.form = "empty"
                  THEN ParamsResult(NoError, FALSE, EmptyCluster)
                  ELSE UnmarshalParams(rawParams)
    IN  CASE parsed.err # NoError -> parsed
          [] planID # "" -> ApplyPlan(parsed, serviceID, planID)
          [] OTHER -> parsed

clusterNameFromIDAndContextIgnoreName(instanceID, rawContext) ==
    CASE rawContext.form = "malformed" -> [err |-> ErrJSON, name |-> EmptyString]
      [] OTHER -> [err |-> NoError, name |-> NormalizeClusterName(instanceID)]

\* clusterNameFromIDAndContext: the display name when instance_name is set in
\* the context, the normalized instance ID otherwise.
clusterNameFromIDAndContext(instanceID, rawContext) ==
    CASE rawContext.form = "malformed" -> [err |-> ErrJSON, name |-> EmptyString]
      [] rawContext.form = "object" /\ rawContext.instance_name # EmptyString ->
            [err |-> NoError, name |-> rawContext.instance_name]
      [] OTHER -> [err |-> NoError, name |-> NormalizeClusterName(instanceID)]

Lookup(err, cluster) == [err |-> err, cluster |-> cluster]

NotRun == Lookup("not run", EmptyCluster)

\* the loop condition of findClusterByInstanceID
Matches(cluster, instanceID) ==
    LET matchesName == cluster.Name = NormalizeClusterName(instanceID)
        matchesLabel == GetLabel(cluster) = instanceID
    IN  matchesName \/ matchesLabel

Min(S) == CHOOSE i \in S : \A j \in S : i <= j

\* findClusterByInstanceID: the first cluster of the list that matches the
\* instance ID by name or by label.  listFails: client.GetClusters() failed.
findClusterByInstanceID(list, listFails, instanceID) ==
    LET hits == {i \in 1..Len(list) : Matches(list[i], instanceID)}
    IN  CASE listFails -> Lookup(ErrList, EmptyCluster)
          [] hits = {} -> Lookup(ErrInstanceDoesNotExist, EmptyCluster)
          [] OTHER -> Lookup(NoError, list[Min(hits)])

----------------------------------------------------------------------------
(* The remote cluster API, as the client sees it.  Each call returns the      *)
(* error and the remote list after the call.  accept: the remote system takes *)
(* a well-addressed request (FALSE: it rejects it, for any reason of its own). *)

RemoteResult(err, list) == [err |-> err, list |-> list]

IndexOfName(list, name) == {i \in 1..Len(list) : list[i].Name = name}

InsertAt(list, pos, e) ==
    [i \in 1..(Len(list) + 1) |->
        IF i < pos THEN list[i] ELSE IF i = pos THEN e ELSE list[i - 1]]

RemoveAt(list, pos) ==
    [i \in 1..(Len(list) - 1) |-> IF i < pos THEN list[i] ELSE list[i + 1]]

\* POST /clusters: cluster names are unique in the remote system; the new
\* cluster starts in CREATING, at the place pos of the listing.
CreateCluster(list, cluster, accept, pos) ==
    IF accept /\ IndexOfName(list, cluster.Name) = {}
    THEN RemoteResult(NoError,
            InsertAt(list, pos, [cluster EXCEPT !.StateName = ClusterStateCreating]))
    ELSE RemoteResult(ErrAtlasAPI, list)

\* PATCH /clusters/{CLUSTER-NAME}: the provider settings sent replace the
\* stored ones; the cluster goes to UPDATING at once (atomic) or later.
UpdateCluster(list, cluster, accept, atomic) ==
    LET hit == {i \in IndexOfName(list, cluster.Name) :
                    list[i].StateName \notin {ClusterStateDeleting, ClusterStateDeleted}}
        i == CHOOSE i \in hit : TRUE
        sent == cluster.ProviderSettings
        provider ==
            IF sent.set
            THEN [sent EXCEPT !.RegionName =
                    IF @ = "" THEN list[i].ProviderSettings.RegionName ELSE @]
            ELSE list[i].ProviderSettings
    IN  IF accept /\ hit # {}
        THEN RemoteResult(NoError,
                [list EXCEPT ![i] =
                    [@ EXCEPT !.ProviderSettings = provider,
                              !.StateName = IF atomic THEN ClusterStateUpdating ELSE @,
                              !.Pending = ~atomic]])
        ELSE RemoteResult(ErrAtlasAPI, list)

\* DELETE /clusters/{CLUSTER-NAME}: the cluster goes to DELETING.
DeleteCluster(list, name, accept) ==
    LET hit == {i \in IndexOfName(list, name) :
                    list[i].StateName \notin {ClusterStateDeleting, ClusterStateDeleted}}
        i == CHOOSE i \in hit : TRUE
    IN  IF accept /\ hit # {}
        THEN RemoteResult(NoError,
                [list EXCEPT ![i] =
                    [@ EXCEPT !.StateName = ClusterStateDeleting, !.Pending = FALSE]])
        ELSE RemoteResult(ErrAtlasAPI, list)

\* What the remote system does with one request: whether GetClusters fails,
\* whether the mutating call is accepted, where a new cluster is listed, and
\* whether an accepted update shows as UPDATING at once.
Remote(listFails, accept, pos, atomic) ==
    [listFails |-> listFails, accept |-> accept, pos |-> pos, atomic |-> atomic]

----------------------------------------------------------------------------
(* The broker's handlers.  Each returns what the call did: the error, the     *)
(* operation token of the result, the poll state, the remote calls made in    *)
(* order, the cluster sent in the mutating call, the lookup's result and the  *)
(* remote list after the call.                                                *)

Details(serviceID, planID, rawParameters, rawContext, operationData) ==
    [ServiceID |-> serviceID, PlanID |-> planID, RawParameters |-> rawParameters,
     RawContext |-> rawContext, OperationData |-> operationData]

Outcome(err, token, state, calls, sent, lookup, list) ==
    [err |-> err, token |-> token, state |-> state, calls |-> calls,
     sent |-> sent, lookup |-> lookup, list |-> list]

\* a return with an error before the mutating call
Fails(err, calls, lookup, list) ==
    Outcome(err, "", "", calls, EmptyCluster, lookup, list)

\* atlasClientFromContext(ctx): the HTTP layer puts the client of the request
\* in the context of every call it hands to the broker.
atlasClientFromContext == [err |-> NoError]

ProvisionBodyCreatesFirst(list, instanceID, details, remote) ==
    LET params == clusterFromParams(details.ServiceID, details.PlanID, details.RawParameters)
        clusterName == clusterNameFromIDAndContext(instanceID, details.RawContext)
        early == SetLabel([params.cluster EXCEPT !.Name = NormalizeClusterName(instanceID)],
                          instanceID)
        cluster == SetLabel([params.cluster EXCEPT !.Name = clusterName.name], instanceID)
        created == CreateCluster(list, cluster, remote.accept, remote.pos)
        createdEarly == CreateCluster(list, early, remote.accept, remote.pos)
    IN  CASE params.err # NoError -> Fails(params.err, <<>>, NotRun, list)
          [] params.isNil -> Fails(Panic, <<>>, NotRun, list)
          [] clusterName.err # NoError ->
                Outcome(clusterName.err, "", "", <<"create">>, early, NotRun,
                        createdEarly.list)
          [] created.err # NoError ->
                Outcome(created.err, "", "", <<"create">>, cluster, NotRun, created.list)
          [] OTHER ->
                Outcome(NoError, OperationProvision, "", <<"create">>, cluster, NotRun,
                        created.list)

\* Provision, lines 41-73
ProvisionBody(list, instanceID, details, remote) ==
    LET params == clusterFromParams(details.ServiceID, details.PlanID, details.RawParameters)
        clusterName == clusterNameFromIDAndContext(instanceID, details.RawContext)
        cluster == SetLabel([params.cluster EXCEPT !.Name = clusterName.name], instanceID)
        created == CreateCluster(list, cluster, remote.accept, remote.pos)
    IN  CASE params.err # NoError -> Fails(params.err, <<>>, NotRun, list)
          [] clusterName.err # NoError -> Fails(clusterName.err, <<>>, NotRun, list)
          [] params.isNil -> Fails(Panic, <<>>, NotRun, list)
          [] created.err # NoError ->
                Outcome(created.err, "", "", <<"create">>, cluster, NotRun, created.list)
          [] OTHER ->
                Outcome(NoError, OperationProvision, "", <<"create">>, cluster, NotRun,
                        created.list)

\* Broker.Provision
Provision(list, instanceID, details, asyncAllowed, remote) ==
    CASE atlasClientFromContext.err # NoError ->
            Fails(atlasClientFromContext.err, <<>>, NotRun, list)
      [] ~asyncAllowed -> Fails(ErrAsyncRequired, <<>>, NotRun, list)
      [] OTHER -> ProvisionBody(list, instanceID, details, remote)

BackfillNothing(cluster, existingCluster) == cluster

\* Update, lines 107-119: complete the provider settings from the existing cluster
Backfill(cluster, existingCluster) ==
    IF cluster.ProviderSettings.set
    THEN [cluster EXCEPT
            !.ProviderSettings.ProviderName =
                IF @ = "" THEN existingCluster.ProviderSettings.ProviderName ELSE @,
            !.ProviderSettings.InstanceSizeName =
                IF @ = "" THEN existingCluster.ProviderSettings.InstanceSizeName ELSE @]
    ELSE cluster

UpdateBodyKeepsUserName(list, instanceID, details, remote) ==
    LET existingCluster == findClusterByInstanceID(list, remote.listFails, instanceID)
        params == clusterFromParams(details.ServiceID, details.PlanID, details.RawParameters)
        named == IF params.cluster.Name = EmptyString
                 THEN [params.cluster EXCEPT !.Name = existingCluster.cluster.Name]
                 ELSE params.cluster
        nilDeref ==
            /\ named.ProviderSettings.set
            /\ ~existingCluster.cluster.ProviderSettings.set
            /\ \/ named.ProviderSettings.ProviderName = ""
               \/ named.ProviderSettings.InstanceSizeName = ""
        cluster == Backfill(named, existingCluster.cluster)
        updated == UpdateCluster(list, cluster, remote.accept, remote.atomic)
    IN  CASE existingCluster.err # NoError ->
                Fails(existingCluster.err, <<"list">>, existingCluster, list)
          [] params.err # NoError -> Fails(params.err, <<"list">>, existingCluster, list)
          [] params.isNil -> Fails(Panic, <<"list">>, existingCluster, list)
          [] nilDeref -> Fails(Panic, <<"list">>, existingCluster, list)
          [] updated.err # NoError ->
                Outcome(updated.err, "", "", <<"list", "update">>, cluster,
                        existingCluster, updated.list)
          [] OTHER ->
                Outcome(NoError, OperationUpdate, "", <<"list", "update">>, cluster,
                        existingCluster, updated.list)

\* Update, lines 90-135
UpdateBody(list, instanceID, details, remote) ==
    LET existingCluster == findClusterByInstanceID(list, remote.listFails, instanceID)
        params == clusterFromParams(details.ServiceID, details.PlanID, details.RawParameters)
        named == [params.cluster EXCEPT !.Name = existingCluster.cluster.Name]
        \* existingCluster.ProviderSettings is dereferenced when a field is empty
        nilDeref ==
            /\ named.ProviderSettings.set
            /\ ~existingCluster.cluster.ProviderSettings.set
            /\ \/ named.ProviderSettings.ProviderName = ""
               \/ named.ProviderSettings.InstanceSizeName = ""
        cluster == Backfill(named, existingCluster.cluster)
        updated == UpdateCluster(list, cluster, remote.accept, remote.atomic)
    IN  CASE existingCluster.err # NoError ->
                Fails(existingCluster.err, <<"list">>, existingCluster, list)
          [] params.err # NoError -> Fails(params.err, <<"list">>, existingCluster, list)
          [] params.isNil -> Fails(Panic, <<"list">>, existingCluster, list)
          [] nilDeref -> Fails(Panic, <<"list">>, existingCluster, list)
          [] updated.err # NoError ->
                Outcome(updated.err, "", "", <<"list", "update">>, cluster,
                        existingCluster, updated.list)
          [] OTHER ->
                Outcome(NoError, OperationUpdate, "", <<"list", "update">>, cluster,
                        existingCluster, updated.list)

\* Broker.Update
Update(list, instanceID, details, asyncAllowed, remote) ==
    CASE atlasClientFromContext.err # NoError ->
            Fails(atlasClientFromContext.err, <<>>, NotRun, list)
      [] ~asyncAllowed -> Fails(ErrAsyncRequired, <<>>, NotRun, list)
      [] OTHER -> UpdateBody(list, instanceID, details, remote)

\* Deprovision, lines 152-170
DeprovisionBody(list, instanceID, remote) ==
    LET cluster == findClusterByInstanceID(list, remote.listFails, instanceID)
        deleted == DeleteCluster(list, cluster.cluster.Name, remote.accept)
    IN  CASE cluster.err # NoError -> Fails(cluster.err, <<"list">>, cluster, list)
          [] deleted.err # NoError ->
                Outcome(deleted.err, "", "", <<"list", "delete">>, cluster.cluster,
                        cluster, deleted.list)
          [] OTHER ->
                Outcome(NoError, OperationDeprovision, "", <<"list", "delete">>,
                        cluster.cluster, cluster, deleted.list)

DeprovisionNoAsyncCheck(list, instanceID, asyncAllowed, remote) ==
    DeprovisionBody(list, instanceID, remote)

DeprovisionIdempotent(list, instanceID, asyncAllowed, remote) ==
    LET done == DeprovisionBody(list, instanceID, remote)
    IN  CASE ~asyncAllowed -> Fails(ErrAsyncRequired, <<>>, NotRun, list)
          [] done.err = ErrInstanceDoesNotExist ->
                Outcome(NoError, OperationDeprovision, "", done.calls, EmptyCluster,
                        done.lookup, list)
          [] OTHER -> done

\* Broker.Deprovision
Deprovision(list, instanceID, asyncAllowed, remote) ==
    CASE atlasClientFromContext.err # NoError ->
            Fails(atlasClientFromContext.err, <<>>, NotRun, list)
      [] ~asyncAllowed -> Fails(ErrAsyncRequired, <<>>, NotRun, list)
      [] OTHER -> DeprovisionBody(list, instanceID, remote)

LastOperationStateNotFoundSucceeds(operationData, lookup) ==
    CASE lookup.err = ErrInstanceDoesNotExist -> Succeeded
      [] operationData = OperationProvision /\ lookup.cluster.StateName = ClusterStateIdle ->
            Succeeded
      [] operationData = OperationProvision /\ lookup.cluster.StateName = ClusterStateCreating ->
            InProgress
      [] operationData = OperationDeprovision /\ lookup.cluster.StateName = ClusterStateDeleted ->
            Succeeded
      [] operationData = OperationDeprovision /\ lookup.cluster.StateName = ClusterStateDeleting ->
            InProgress
      [] operationData = OperationUpdate /\ lookup.cluster.StateName = ClusterStateIdle ->
            Succeeded
      [] operationData = OperationUpdate /\ lookup.cluster.StateName = ClusterStateUpdating ->
            InProgress
      [] OTHER -> Failed

LastOperationStateRepairingInProgress(operationData, lookup) ==
    CASE operationData = OperationProvision /\ lookup.cluster.StateName = ClusterStateIdle ->
            Succeeded
      [] operationData = OperationProvision /\ lookup.cluster.StateName = ClusterStateCreating ->
            InProgress
      [] operationData = OperationDeprovision
            /\ (lookup.err = ErrInstanceDoesNotExist
                \/ lookup.cluster.StateName = ClusterStateDeleted) ->
            Succeeded
      [] operationData = OperationDeprovision /\ lookup.cluster.StateName = ClusterStateDeleting ->
            InProgress
      [] operationData = OperationUpdate /\ lookup.cluster.StateName = ClusterStateIdle ->
            Succeeded
      [] operationData = OperationUpdate /\ lookup.cluster.StateName = ClusterStateUpdating ->
            InProgress
      [] lookup.cluster.StateName = ClusterStateRepairing -> InProgress
      [] OTHER -> Failed

LastOperationStateNoDefault(operationData, lookup) ==
    CASE operationData = OperationProvision /\ lookup.cluster.StateName = ClusterStateIdle ->
            Succeeded
      [] operationData = OperationProvision /\ lookup.cluster.StateName = ClusterStateCreating ->
            InProgress
      [] operationData = OperationDeprovision
            /\ (lookup.err = ErrInstanceDoesNotExist
                \/ lookup.cluster.StateName = ClusterStateDeleted) ->
            Succeeded
      [] operationData = OperationDeprovision /\ lookup.cluster.StateName = ClusterStateDeleting ->
            InProgress
      [] operationData = OperationUpdate /\ lookup.cluster.StateName = ClusterStateIdle ->
            Succeeded
      [] operationData = OperationUpdate /\ lookup.cluster.StateName = ClusterStateUpdating ->
            InProgress
      [] operationData \in {OperationProvision, OperationDeprovision, OperationUpdate} -> Failed
      [] OTHER -> ""

LastOperationStateUpdateIdleInProgress(operationData, lookup) ==
    CASE operationData = OperationProvision /\ lookup.cluster.StateName = ClusterStateIdle ->
            Succeeded
      [] operationData = OperationProvision /\ lookup.cluster.StateName = ClusterStateCreating ->
            InProgress
      [] operationData = OperationDeprovision
            /\ (lookup.err = ErrInstanceDoesNotExist
                \/ lookup.cluster.StateName = ClusterStateDeleted) ->
            Succeeded
      [] operationData = OperationDeprovision /\ lookup.cluster.StateName = ClusterStateDeleting ->
            InProgress
      [] operationData = OperationUpdate
            /\ lookup.cluster.StateName \in {ClusterStateIdle, ClusterStateUpdating} ->
            InProgress
      [] OTHER -> Failed

\* LastOperation, lines 198-227: the switch over the operation and the state
LastOperationState(operationData, lookup) ==
    CASE operationData = OperationProvision /\ lookup.cluster.StateName = ClusterStateIdle ->
            Succeeded
      [] operationData = OperationProvision /\ lookup.cluster.StateName = ClusterStateCreating ->
            InProgress
      [] operationData = OperationDeprovision
            /\ (lookup.err = ErrInstanceDoesNotExist
                \/ lookup.cluster.StateName = ClusterStateDeleted) ->
            Succeeded
      [] operationData = OperationDeprovision /\ lookup.cluster.StateName = ClusterStateDeleting ->
            InProgress
      [] operationData = OperationUpdate /\ lookup.cluster.StateName = ClusterStateIdle ->
            Succeeded
      [] operationData = OperationUpdate /\ lookup.cluster.StateName = ClusterStateUpdating ->
            InProgress
      [] OTHER -> Failed

LastOperationClassifiesErrors(list, instanceID, details, remote) ==
    LET cluster == findClusterByInstanceID(list, remote.listFails, instanceID)
    IN  Outcome(NoError, "", LastOperationState(details.OperationData, cluster),
                <<"list">>, EmptyCluster, cluster, list)

LastOperationRetriesDelete(list, instanceID, details, remote) ==
    LET cluster == findClusterByInstanceID(list, remote.listFails, instanceID)
        deleted == DeleteCluster(list, cluster.cluster.Name, remote.accept)
    IN  CASE cluster.err # NoError /\ cluster.err # ErrInstanceDoesNotExist ->
                Fails(cluster.err, <<"list">>, cluster, list)
          [] details.OperationData = OperationDeprovision /\ cluster.err = NoError ->
                Outcome(NoError, "", LastOperationState(details.OperationData, cluster),
                        <<"list", "delete">>, EmptyCluster, cluster, deleted.list)
          [] OTHER ->
                Outcome(NoError, "", LastOperationState(details.OperationData, cluster),
                        <<"list">>, EmptyCluster, cluster, list)

\* Broker.LastOperation
LastOperation(list, instanceID, details, remote) ==
    LET cluster == findClusterByInstanceID(list, remote.listFails, instanceID)
    IN  CASE atlasClientFromContext.err # NoError ->
                Fails(atlasClientFromContext.err, <<>>, NotRun, list)
          [] cluster.err # NoError /\ cluster.err # ErrInstanceDoesNotExist ->
                Fails(cluster.err, <<"list">>, cluster, list)
          [] OTHER ->
                Outcome(NoError, "", LastOperationState(details.OperationData, cluster),
                        <<"list">>, EmptyCluster, cluster, list)

----------------------------------------------------------------------------
(* Inputs *)

\* two instance IDs of MaxIdLen characters that differ in the last one
LongID(c) == Rep("x", MaxIdLen - 1) \o <<c>>

InstanceIDs == {LongID("x"), LongID("y")}

DisplayName == <<"d", "b">>

LongDisplayName == Rep("d", MaxIdLen)

NoContext == RawContext("empty", EmptyString)

NoParams == RawParams("empty", EmptyString, FALSE, "", "", "")

ServiceAWS == "aosb-aws"

PlanM10 == "aosb-aws-m10"

OperationTokens == {OperationProvision, OperationUpdate, OperationDeprovision, "other"}

\* the provisioning requests of the lifecycle specification: the catalog's
\* plan, no user parameters, with or without a display name
LifecycleContexts == {NoContext, RawContext("object", DisplayName)}

LifecycleProvisionDetails ==
    {Details(ServiceAWS, PlanM10, NoParams, c, "") : c \in LifecycleContexts}

UserName == <<"u">>

\* an update with or without a plan, with or without a name in the user parameters
LifecycleUpdateDetails ==
    {Details(ServiceAWS, p, u, NoContext, "") :
        p \in {"", PlanM10}, u \in {NoParams, RawParams("object", UserName, FALSE, "", "", "")}}

PollDetails == {Details("", "", NoParams, NoContext, t) : t \in OperationTokens}

NoDetails == Details("", "", NoParams, NoContext, "")

----------------------------------------------------------------------------
(* State machine *)

Call(op, instanceID, asyncAllowed, details, r) ==
    [op |-> op, instanceID |-> instanceID, asyncAllowed |-> asyncAllowed,
     details |-> details, err |-> r.err, token |-> r.token, state |-> r.state,
     calls |-> r.calls, sent |-> r.sent, lookup |-> r.lookup]

\* no broker call produced this state
NoCall ==
    [op |-> "none", instanceID |-> EmptyString, asyncAllowed |-> FALSE,
     details |-> NoDetails, err |-> NoError, token |-> "", state |-> "",
     calls |-> <<>>, sent |-> EmptyCluster, lookup |-> NotRun]

Init ==
    /\ clusters = <<>>
    /\ provisioned = {}
    /\ deprovisioned = {}
    /\ last = NoCall

\* The platform calls Provision; instance IDs are unique, so an ID whose
\* Provision was accepted is not provisioned again.
CallProvision(instanceID, details, asyncAllowed, remote) ==
    LET r == Provision(clusters, instanceID, details, asyncAllowed, remote)
    IN  /\ instanceID \notin provisioned
        /\ Len(clusters) < MaxClusters
        /\ remote.pos <= Len(clusters) + 1
        /\ clusters' = r.list
        /\ provisioned' = IF r.err = NoError THEN provisioned \cup {instanceID} ELSE provisioned
        /\ last' = Call("provision", instanceID, asyncAllowed, details, r)
        /\ UNCHANGED deprovisioned

CallUpdate(instanceID, details, asyncAllowed, remote) ==
    LET r == Update(clusters, instanceID, details, asyncAllowed, remote)
    IN  /\ clusters' = r.list
        /\ last' = Call("update", instanceID, asyncAllowed, details, r)
        /\ UNCHANGED <<provisioned, deprovisioned>>

CallDeprovision(instanceID, asyncAllowed, remote) ==
    LET r == Deprovision(clusters, instanceID, asyncAllowed, remote)
    IN  /\ clusters' = r.list
        /\ deprovisioned' =
                IF r.err = NoError THEN deprovisioned \cup {instanceID} ELSE deprovisioned
        /\ last' = Call("deprovision", instanceID, asyncAllowed, NoDetails, r)
        /\ UNCHANGED provisioned

CallLastOperation(instanceID, details, remote) ==
    LET r == LastOperation(clusters, instanceID, details, remote)
    IN  /\ clusters' = r.list
        /\ last' = Call("poll", instanceID, TRUE, details, r)
        /\ UNCHANGED <<provisioned, deprovisioned>>

\* The remote system moves cluster i from one state to another.
RemoteStep(i, from, to) ==
    /\ i \in 1..Len(clusters)
    /\ clusters[i].StateName = from
    /\ ~clusters[i].Pending
    /\ clusters' = [clusters EXCEPT ![i].StateName = to]
    /\ last' = NoCall
    /\ UNCHANGED <<provisioned, deprovisioned>>

RemoteCreated == \E i \in 1..MaxClusters : RemoteStep(i, ClusterStateCreating, ClusterStateIdle)

RemoteUpdated == \E i \in 1..MaxClusters : RemoteStep(i, ClusterStateUpdating, ClusterStateIdle)

RemoteRepairs == \E i \in 1..MaxClusters : RemoteStep(i, ClusterStateIdle, ClusterStateRepairing)

RemoteRepaired == \E i \in 1..MaxClusters : RemoteStep(i, ClusterStateRepairing, ClusterStateIdle)

RemoteDeleted == \E i \in 1..MaxClusters : RemoteStep(i, ClusterStateDeleting, ClusterStateDeleted)

\* The remote system starts an update it accepted earlier.
RemoteUpdateStarts ==
    \E i \in 1..Len(clusters) :
        /\ clusters[i].Pending
        /\ clusters' = [clusters EXCEPT ![i].StateName = ClusterStateUpdating,
                                        ![i].Pending = FALSE]
        /\ last' = NoCall
        /\ UNCHANGED <<provisioned, deprovisioned>>

\* The remote system stops listing a deleted cluster.
RemoteForgets ==
    \E i \in 1..Len(clusters) :
        /\ clusters[i].StateName \in {ClusterStateDeleting, ClusterStateDeleted}
        /\ clusters' = RemoveAt(clusters, i)
        /\ last' = NoCall
        /\ UNCHANGED <<provisioned, deprovisioned>>

RemoteNext ==
    \/ RemoteCreated
    \/ RemoteUpdateStarts
    \/ RemoteUpdated
    \/ RemoteRepairs
    \/ RemoteRepaired
    \/ RemoteDeleted
    \/ RemoteForgets

\* The remote system's choices that a call can observe: the place of a new
\* cluster matters to an accepted create only, the timing of the UPDATING
\* state to an accepted update only, and nothing after a failed listing.
Remotes ==
    {Remote(f, a, p, t) : f \in BOOLEAN, a \in BOOLEAN, p \in 1..MaxClusters, t \in BOOLEAN}

CreateRemotes ==
    {r \in Remotes : ~r.listFails /\ r.atomic /\ ((~r.accept) => (r.pos = 1))}

UpdateRemotes ==
    {r \in Remotes :
        /\ r.pos = 1
        /\ ((r.listFails \/ ~r.accept) => r.atomic)
        /\ (r.listFails => r.accept)}

DeleteRemotes == {r \in Remotes : r.pos = 1 /\ r.atomic /\ (r.listFails => r.accept)}

ListRemotes == {r \in Remotes : r.pos = 1 /\ r.atomic /\ r.accept}

\* a call without asyncAllowed reaches no remote call
AsyncRemotes(asyncAllowed, remotes) ==
    IF asyncAllowed THEN remotes ELSE {Remote(FALSE, TRUE, 1, TRUE)}

LifecycleProvision ==
    \E id \in InstanceIDs, d \in LifecycleProvisionDetails, a \in BOOLEAN :
        \E r \in AsyncRemotes(a, CreateRemotes) : CallProvision(id, d, a, r)

LifecycleUpdate ==
    \E id \in InstanceIDs, d \in LifecycleUpdateDetails, a \in BOOLEAN :
        \E r \in AsyncRemotes(a, UpdateRemotes) : CallUpdate(id, d, a, r)

LifecycleDeprovision ==
    \E id \in InstanceIDs, a \in BOOLEAN :
        \E r \in AsyncRemotes(a, DeleteRemotes) : CallDeprovision(id, a, r)

LifecyclePoll ==
    \E id \in InstanceIDs, d \in PollDetails, r \in ListRemotes :
        CallLastOperation(id, d, r)

Next ==
    \/ LifecycleProvision
    \/ LifecycleUpdate
    \/ LifecycleDeprovision
    \/ LifecyclePoll
    \/ RemoteNext

Spec == Init /\ [][Next]_vars

----------------------------------------------------------------------------
(* The parameter specification: one instance, every shape of service, plan,  *)
(* user parameters and request context.                                      *)

ParamsRawParams ==
    {NoParams,
     RawParams("malformed", EmptyString, FALSE, "", "", ""),
     RawParams("null", EmptyString, FALSE, "", "", ""),
     RawParams("object", UserName, FALSE, "", "", ""),
     RawParams("object", EmptyString, TRUE, "", "", "US_EAST_1"),
     RawParams("object", EmptyString, TRUE, "GCP", "", ""),
     RawParams("object", UserName, TRUE, "GCP", "M20", "")}

ParamsContexts ==
    {NoContext,
     RawContext("malformed", EmptyString),
     RawContext("object", EmptyString),
     RawContext("object", LongDisplayName)}

ServiceIDs == {ServiceAWS, "unknown"}

\* The plan ID is optional during updates but not during creation.
ProvisionPlanIDs == {PlanM10, "unknown"}

UpdatePlanIDs == {""} \cup ProvisionPlanIDs

ParamsInstanceIDs == {LongID("x")}

ParamsProvisionDetails ==
    {Details(s, p, u, c, "") :
        s \in ServiceIDs, p \in ProvisionPlanIDs, u \in ParamsRawParams, c \in ParamsContexts}

\* the service is looked up only when a plan is given
ParamsUpdateDetails ==
    {d \in {Details(s, p, u, NoContext, "") :
                s \in ServiceIDs, p \in UpdatePlanIDs, u \in ParamsRawParams} :
        d.PlanID # PlanM10 => d.ServiceID = ServiceAWS}

ParamsProvision ==
    \E id \in ParamsInstanceIDs, d \in ParamsProvisionDetails, a \in BOOLEAN :
        \E r \in AsyncRemotes(a, CreateRemotes) : CallProvision(id, d, a, r)

ParamsUpdate ==
    \E id \in ParamsInstanceIDs, d \in ParamsUpdateDetails, a \in BOOLEAN :
        \E r \in AsyncRemotes(a, {u \in UpdateRemotes : u.atomic}) : CallUpdate(id, d, a, r)

ParamsDeprovision ==
    \E id \in ParamsInstanceIDs, a \in BOOLEAN :
        \E r \in AsyncRemotes(a, DeleteRemotes) : CallDeprovision(id, a, r)

\* every accepted update of this specification shows as UPDATING at once
ParamsRemoteNext ==
    \/ RemoteCreated
    \/ RemoteUpdated
    \/ RemoteRepairs
    \/ RemoteRepaired
    \/ RemoteDeleted
    \/ RemoteForgets

\* The remote system lists a cluster without a provider settings object: the
\* decoded Cluster.ProviderSettings is a nil pointer.
RemoteListsNoProviderSettings ==
    \E i \in 1..Len(clusters) :
        /\ clusters[i].ProviderSettings.set
        /\ clusters' = [clusters EXCEPT ![i].ProviderSettings = NoProvider]
        /\ last' = NoCall
        /\ UNCHANGED <<provisioned, deprovisioned>>

NextParams ==
    \/ ParamsProvision
    \/ ParamsUpdate
    \/ ParamsDeprovision
    \/ ParamsRemoteNext
    \/ RemoteListsNoProviderSettings

SpecParams == Init /\ [][NextParams]_vars

----------------------------------------------------------------------------
(* The function specification: NormalizeClusterName and clusterFromParams,   *)
(* each applied to every input of a bounded set; last holds the input and    *)
(* then the result.                                                          *)

\* names of 0 to MaxIdLen + 2 characters
Names == {Rep("x", n) \o t : n \in 0..MaxIdLen, t \in {<<>>, <<"y">>, <<"y", "x">>}}

NameInput(name) ==
    [op |-> "name", input |-> name, name |-> name, normalized |-> EmptyString]

ParamsInput(serviceID, planID, rawParams) ==
    [op |-> "params", serviceID |-> serviceID, planID |-> planID, rawParams |-> rawParams,
     resolved |-> ParamsResult(NoError, TRUE, EmptyCluster)]

FunctionInputs ==
    {NameInput(n) : n \in Names}
        \cup {ParamsInput(s, p, u) :
                s \in ServiceIDs, p \in UpdatePlanIDs, u \in ParamsRawParams}

InitFunctions ==
    /\ clusters = <<>>
    /\ provisioned = {}
    /\ deprovisioned = {}
    /\ last \in FunctionInputs

CallNormalizeClusterName ==
    /\ last.op = "name"
    /\ last' = [last EXCEPT !.op = "normalized",
                            !.normalized = NormalizeClusterName(last.name)]
    /\ UNCHANGED <<clusters, provisioned, deprovisioned>>

\* the function applied to its own result
CallNormalizeClusterNameAgain ==
    /\ last.op = "normalized"
    /\ last' = [last EXCEPT !.op = "renormalized",
                            !.name = last.normalized,
                            !.normalized = NormalizeClusterName(last.normalized)]
    /\ UNCHANGED <<clusters, provisioned, deprovisioned>>

CallClusterFromParams ==
    /\ last.op = "params"
    /\ last' = [last EXCEPT !.op = "resolved",
                            !.resolved = clusterFromParams(last.serviceID, last.planID,
                                                           last.rawParams)]
    /\ UNCHANGED <<clusters, provisioned, deprovisioned>>

NextFunctions ==
    \/ CallNormalizeClusterName
    \/ CallNormalizeClusterNameAgain
    \/ CallClusterFromParams

SpecFunctions == InitFunctions /\ [][NextFunctions]_vars

----------------------------------------------------------------------------
(* Properties *)

Polled == last.op = "poll"

\* the first 23 characters of a string
Truncated(s) == IF Len(s) <= 23 THEN s ELSE SubSeq(s, 1, 23)

\* the places of the remote list whose cluster matches the instance ID by
\* name or by label
MatchesOf(instanceID) ==
    {i \in 1..Len(clusters) :
        \/ clusters[i].Name = Truncated(instanceID)
        \/ clusters[i].Label = instanceID}

\* the places of the remote list whose cluster was created for the instance ID
CreatedFor(instanceID) == {i \in 1..Len(clusters) : clusters[i].Label = instanceID}

\* the table of the operation state machine
PollTable(kind, stateName) ==
    CASE kind = "provision" ->
            IF stateName = "IDLE" THEN "succeeded"
            ELSE IF stateName = "CREATING" THEN "in progress" ELSE "failed"
      [] kind = "update" ->
            IF stateName = "IDLE" THEN "succeeded"
            ELSE IF stateName = "UPDATING" THEN "in progress" ELSE "failed"
      [] kind = "deprovision" ->
            IF stateName = "DELETED" THEN "succeeded"
            ELSE IF stateName = "DELETING" THEN "in progress" ELSE "failed"
      [] OTHER -> "failed"

\* C1: a poll whose lookup found a cluster returns, without error, the state
\* the table gives for the operation token and the found cluster's state;
\* every token that is none of the three kinds gives failed.
C1_PollMatchesTable ==
    (Polled /\ last.lookup.err = NoError) =>
        /\ last.err = NoError
        /\ last.lookup.cluster.StateName \in ClusterStates
        /\ last.state = PollTable(last.details.OperationData, last.lookup.cluster.StateName)

\* C1 witness: an update poll that found a REPAIRING cluster returned failed.
C1_Witness ==
    /\ Polled
    /\ last.lookup.err = NoError
    /\ last.details.OperationData = "update"
    /\ last.lookup.cluster.StateName = "REPAIRING"
    /\ last.state = "failed"

\* C2: a poll whose lookup ended in not-found returns no error; it returns
\* succeeded exactly when the token is deprovision and failed for every other
\* token.
C2_NotFoundPoll ==
    (Polled /\ MatchesOf(last.instanceID) = {} /\ last.lookup.err # ErrList) =>
        /\ last.lookup.err = ErrInstanceDoesNotExist
        /\ last.err = NoError
        /\ (last.state = "succeeded") <=> (last.details.OperationData = "deprovision")
        /\ (last.details.OperationData # "deprovision") => (last.state = "failed")

\* C2 witness: a deprovision poll for an instance with no cluster succeeded
\* while another cluster was listed.
C2_Witness ==
    /\ Polled
    /\ last.lookup.err = ErrInstanceDoesNotExist
    /\ last.details.OperationData = "deprovision"
    /\ last.state = "succeeded"
    /\ clusters # <<>>

\* C3: a Provision, Update or Deprovision without asyncAllowed fails with
\* ErrAsyncRequired, makes no remote call and leaves the remote list unchanged.
C3_AsyncRequired ==
    [][(last'.op \in {"provision", "update", "deprovision"} /\ ~last'.asyncAllowed) =>
            /\ last'.err = ErrAsyncRequired
            /\ last'.calls = <<>>
            /\ last'.token = ""
            /\ clusters' = clusters]_vars

\* C3 witness: a Deprovision without asyncAllowed was refused while the
\* instance's cluster was listed and idle.
C3_Witness ==
    /\ last.op = "deprovision"
    /\ ~last.asyncAllowed
    /\ last.err = ErrAsyncRequired
    /\ \E i \in MatchesOf(last.instanceID) : clusters[i].StateName = "IDLE"

\* C4: every cluster Provision sends to the remote create call has a name of
\* at most 23 characters.
C4_CreatedNameWithinLimit ==
    (last.op = "provision" /\ last.calls = <<"create">>) =>
        Len(last.sent.Name) <= maximumNameLength

\* C5: for every instance ID at most one cluster of the remote list matches it
\* by name or by label.
C5_AtMostOneMatch ==
    \A id \in InstanceIDs : Cardinality(MatchesOf(id)) <= 1

\* C6: a Deprovision (with asyncAllowed, the listing answered) of an instance
\* that no listed cluster matches fails with ErrInstanceDoesNotExist and
\* issues no delete call, also when a Deprovision of the instance was
\* accepted before.
C6_DeprovisionNotFound ==
    (/\ last.op = "deprovision"
     /\ last.asyncAllowed
     /\ last.lookup.err # ErrList
     /\ MatchesOf(last.instanceID) = {}) =>
        /\ last.err = ErrInstanceDoesNotExist
        /\ last.calls = <<"list">>
        /\ last.token = ""

\* C6 witness: a second Deprovision, after the cluster left the remote list,
\* failed with ErrInstanceDoesNotExist.
C6_Witness ==
    /\ last.op = "deprovision"
    /\ last.instanceID \in deprovisioned
    /\ last.asyncAllowed
    /\ MatchesOf(last.instanceID) = {}
    /\ last.err = ErrInstanceDoesNotExist

\* C7: after an accepted Provision of an instance, a provision poll that
\* returns a state returns in-progress while the cluster created for the
\* instance is CREATING and succeeded when it is IDLE.
C7_ProvisionPoll ==
    (/\ Polled
     /\ last.details.OperationData = "provision"
     /\ last.err = NoError
     /\ last.instanceID \in provisioned) =>
        \A i \in CreatedFor(last.instanceID) :
            /\ clusters[i].StateName = "CREATING" => last.state = "in progress"
            /\ clusters[i].StateName = "IDLE" => last.state = "succeeded"

\* C8: after an accepted Deprovision of an instance, a deprovision poll whose
\* listing answered returns no error and never failed: in-progress while the
\* instance's cluster is listed as DELETING, succeeded when it is listed as
\* DELETED or not listed.
C8_DeprovisionPoll ==
    (/\ Polled
     /\ last.details.OperationData = "deprovision"
     /\ last.lookup.err # ErrList
     /\ last.instanceID \in deprovisioned) =>
        /\ last.err = NoError
        /\ last.state # "failed"
        /\ \A i \in CreatedFor(last.instanceID) :
            /\ clusters[i].StateName = "DELETING" => last.state = "in progress"
            /\ clusters[i].StateName = "DELETED" => last.state = "succeeded"
        /\ CreatedFor(last.instanceID) = {} => last.state = "succeeded"

\* the name an accepted Provision gives the cluster
ExpectedName(instanceID, rawContext) ==
    IF rawContext.form = "object" /\ rawContext.instance_name # <<>>
    THEN rawContext.instance_name
    ELSE Truncated(instanceID)

\* C9: an accepted Provision made exactly one remote call, a create, of a
\* cluster named by the display name of the context if there is one and by
\* the truncated instance ID otherwise, labelled with the whole instance ID,
\* with the provider and instance size of the plan; the cluster is listed and
\* the result carries the token "provision".
C9_ProvisionCreates ==
    (last.op = "provision" /\ last.err = NoError) =>
        /\ last.calls = <<"create">>
        /\ last.sent.Name = ExpectedName(last.instanceID, last.details.RawContext)
        /\ last.sent.Label = last.instanceID
        /\ last.sent.ProviderSettings.set
        /\ last.sent.ProviderSettings.ProviderName = "AWS"
        /\ last.sent.ProviderSettings.InstanceSizeName = "M10"
        /\ last.token = "provision"
        /\ \E i \in 1..Len(clusters) :
                /\ clusters[i].Name = last.sent.Name
                /\ clusters[i].Label = last.instanceID
                /\ clusters[i].ProviderSettings = last.sent.ProviderSettings

\* C9 witness: a Provision whose user parameters name the cluster and choose
\* another provider was accepted, with no display name in the context.
C9_Witness ==
    /\ last.op = "provision"
    /\ last.err = NoError
    /\ last.details.RawParameters.Name = UserName
    /\ last.details.RawParameters.ProviderName = "GCP"
    /\ last.details.RawContext.instance_name = <<>>
    /\ Len(last.instanceID) > 23

\* the provider field an Update resolves from plan and user parameters
ResolvedField(details, planValue, userValue) ==
    IF details.PlanID # "" THEN planValue ELSE userValue

\* C10: in the cluster an Update sends, when the provider object is present,
\* providerName and instanceSizeName are the value resolved from plan and user
\* parameters when that is not empty and the existing cluster's value
\* otherwise, with or without a plan; the region the user gave is kept.
C10_UpdateBackfill ==
    (last.op = "update" /\ last.calls = <<"list", "update">>) =>
        LET user == last.details.RawParameters
            existing == last.lookup.cluster.ProviderSettings
            providerName == ResolvedField(last.details, "AWS", user.ProviderName)
            instanceSizeName == ResolvedField(last.details, "M10", user.InstanceSizeName)
            sent == last.sent.ProviderSettings
        IN  /\ sent.set <=> (last.details.PlanID # "" \/ user.hasProvider)
            /\ sent.set =>
                /\ sent.ProviderName =
                      IF providerName # "" THEN providerName ELSE existing.ProviderName
                /\ sent.InstanceSizeName =
                      IF instanceSizeName # "" THEN instanceSizeName
                      ELSE existing.InstanceSizeName
                /\ sent.RegionName = user.RegionName

\* C10 witness: an Update without a plan, with only a region in the user's
\* provider settings, of a cluster on AWS M10 sent AWS, M10 and the region.
C10_Witness ==
    /\ last.op = "update"
    /\ last.err = NoError
    /\ last.details.PlanID = ""
    /\ last.details.RawParameters.RegionName = "US_EAST_1"
    /\ last.details.RawParameters.ProviderName = ""
    /\ last.lookup.cluster.ProviderSettings.ProviderName = "AWS"
    /\ last.lookup.cluster.ProviderSettings.InstanceSizeName = "M10"
    /\ last.sent.ProviderSettings =
            [set |-> TRUE, ProviderName |-> "AWS", InstanceSizeName |-> "M10",
             RegionName |-> "US_EAST_1"]

\* C11: the cluster an Update sends to the remote update call has the name of
\* the cluster the locator found, the first match of the remote list, whatever
\* name the user parameters hold and whatever the truncated instance ID is; the
\* call renames no cluster and changes no cluster but the located one.
C11_UpdateKeepsName ==
    [][(last'.op = "update" /\ last'.calls = <<"list", "update">>) =>
            /\ MatchesOf(last'.instanceID) # {}
            /\ LET located == Min(MatchesOf(last'.instanceID))
               IN  /\ last'.lookup.cluster = clusters[located]
                   /\ last'.sent.Name = clusters[located].Name
                   /\ Len(clusters') = Len(clusters)
                   /\ \A i \in 1..Len(clusters) :
                        /\ clusters'[i].Name = clusters[i].Name
                        /\ clusters'[i] # clusters[i] => i = located]_vars

\* C11 witness: an accepted Update whose user parameters name the cluster
\* otherwise, of a cluster named by a display name, changed the located
\* cluster while another cluster was listed.
C11_Witness ==
    /\ last.op = "update"
    /\ last.err = NoError
    /\ last.details.RawParameters.Name = UserName
    /\ last.sent.Name = DisplayName
    /\ last.sent.Name # Truncated(last.instanceID)
    /\ Len(clusters) = 2
    /\ \E i \in 1..Len(clusters) :
            /\ clusters[i].Name = DisplayName
            /\ clusters[i].StateName = "UPDATING"

\* the remote calls that change the remote system
MutatingCalls == {"create", "update", "delete"}

\* C12: a Provision, Update or Deprovision makes at most one mutating remote
\* call, as its last remote call; a call that fails for another reason than
\* the rejection of its mutating call (async not allowed, malformed parameters
\* or context, unknown plan, instance not found, failed listing) made no
\* mutating call and left the remote list unchanged; a result with an
\* operation token is returned only when the mutating call was accepted.
C12_NoPartialSuccess ==
    [][(last'.op \in {"provision", "update", "deprovision"}) =>
            LET calls == last'.calls
                mutating == {i \in 1..Len(calls) : calls[i] \in MutatingCalls}
            IN  /\ Cardinality(mutating) <= 1
                /\ \A i \in mutating : i = Len(calls)
                /\ (last'.err \in {ErrAsyncRequired, ErrJSON, ErrCatalog,
                                   ErrInstanceDoesNotExist, ErrList, Panic}) =>
                        /\ mutating = {}
                        /\ clusters' = clusters
                /\ (mutating = {}) =>
                        /\ last'.err # NoError
                        /\ clusters' = clusters
                /\ (last'.token # "") =>
                        /\ last'.err = NoError
                        /\ mutating # {}
                        /\ last'.token = last'.op]_vars

\* C12 witness: a Provision with a resolvable plan and well-formed user
\* parameters failed on a malformed context without a remote call.
C12_Witness ==
    /\ last.op = "provision"
    /\ last.asyncAllowed
    /\ last.details.RawContext.form = "malformed"
    /\ last.details.RawParameters.form = "object"
    /\ last.details.ServiceID = ServiceAWS
    /\ last.details.PlanID = PlanM10
    /\ last.err = ErrJSON
    /\ last.calls = <<>>
    /\ last.token = ""

\* C13: a poll whose lookup failed with another error than not-found returns
\* that error to the caller, with no state, for every operation token.
C13_PollPropagatesError ==
    (Polled /\ last.lookup.err \notin {NoError, ErrInstanceDoesNotExist}) =>
        /\ last.err = last.lookup.err
        /\ last.state = ""

\* C13 witness: a deprovision poll whose listing failed, after an accepted
\* Deprovision, returned the listing's error.
C13_Witness ==
    /\ Polled
    /\ last.details.OperationData = "deprovision"
    /\ last.instanceID \in deprovisioned
    /\ last.lookup.err = ErrList
    /\ last.err = ErrList

\* C14, as claimed: every poll yields one of the states in-progress, succeeded
\* and failed, never an empty one, for every token and every lookup outcome.
C14_PollStateTotal ==
    Polled => last.state \in {"in progress", "succeeded", "failed"}

\* C14: every poll that returns without error yields one of the states
\* in-progress, succeeded and failed, for every token and every lookup outcome
\* that is a cluster or not-found; a poll returns an error only when its
\* lookup failed otherwise, and then it yields no state.
C14_PollStateWhenReturned ==
    Polled =>
        IF last.err = NoError
        THEN /\ last.state \in {"in progress", "succeeded", "failed"}
             /\ last.lookup.err \in {NoError, ErrInstanceDoesNotExist}
        ELSE /\ last.lookup.err = ErrList
             /\ last.state = ""

\* C14 witness: a poll with a token that is no operation kind, whose lookup
\* found a listed cluster, yielded failed.
C14_Witness ==
    /\ Polled
    /\ last.err = NoError
    /\ last.details.OperationData = "other"
    /\ last.lookup.err = NoError
    /\ last.state = "failed"

\* C15: NormalizeClusterName returns a name of at most 23 characters unchanged
\* and the first 23 characters of a longer one; its result has at most 23
\* characters, and applied to its own result it returns that result.
C15_Normalize ==
    /\ (last.op \in {"normalized", "renormalized"}) =>
            /\ Len(last.name) <= 23 => last.normalized = last.name
            /\ Len(last.name) > 23 => last.normalized = SubSeq(last.name, 1, 23)
            /\ Len(last.normalized) <= 23
    /\ (last.op = "renormalized") => last.normalized = last.name

\* C15 witness: a name of more than 23 characters was cut to 23 and
\* normalizing the result again returned it unchanged.
C15_Witness ==
    /\ last.op = "renormalized"
    /\ Len(last.input) > 23
    /\ Len(last.name) = 23
    /\ last.name = Rep("x", 23)
    /\ last.normalized = last.name

\* the clusters of a list that were created for other instances
ClustersOfOthers(list, instanceID) ==
    {list[i] : i \in {j \in 1..Len(list) : list[j].Label # instanceID}}

\* the state a poll of an instance returns over a list, by the table
PollOver(list, instanceID, kind) ==
    LET matches == {i \in 1..Len(list) :
                        \/ list[i].Name = Truncated(instanceID)
                        \/ list[i].Label = instanceID}
    IN  IF matches = {}
        THEN IF kind = "deprovision" THEN "succeeded" ELSE "failed"
        ELSE PollTable(kind, list[Min(matches)].StateName)

\* C16: a Provision, Update or Deprovision of one instance creates, updates
\* and deletes no cluster of another instance and changes the result of no
\* poll of another instance.
C16_NoInterference ==
    [][(last'.op \in {"provision", "update", "deprovision"}) =>
            /\ ClustersOfOthers(clusters', last'.instanceID)
                    = ClustersOfOthers(clusters, last'.instanceID)
            /\ \A other \in InstanceIDs \ {last'.instanceID} :
                    \A kind \in {"provision", "update", "deprovision"} :
                        PollOver(clusters', other, kind) = PollOver(clusters, other, kind)]_vars

\* C17: a lookup over an answered listing ends in not-found exactly when no
\* listed cluster has the truncated instance ID as its name and none has the
\* instance ID as its label; otherwise it returns the first listed cluster
\* that matches by name or by label; so a listed cluster created for the
\* instance under a display name is the cluster the lookup returns.
C17_Locator ==
    (Polled /\ last.lookup.err # ErrList) =>
        /\ (last.lookup.err = ErrInstanceDoesNotExist) <=> (MatchesOf(last.instanceID) = {})
        /\ (MatchesOf(last.instanceID) # {}) =>
                /\ last.lookup.err = NoError
                /\ last.lookup.cluster = clusters[Min(MatchesOf(last.instanceID))]
        /\ \A i \in CreatedFor(last.instanceID) :
                (clusters[i].Name # Truncated(last.instanceID)) =>
                    last.lookup.cluster = clusters[i]

\* C18: parameter resolution with a plan ID of the catalog's service yields,
\* for all well-formed user parameters, a cluster whose provider settings are
\* present with the provider name and instance size of the plan, whatever the
\* user parameters hold in the two fields; an unknown service or plan, or
\* malformed user parameters, yield an error and no cluster.
C18_PlanResolution ==
    (last.op = "resolved" /\ last.planID # "") =>
        IF last.serviceID = ServiceAWS /\ last.planID = PlanM10
                /\ last.rawParams.form # "malformed"
        THEN /\ last.resolved.err = NoError
             /\ ~last.resolved.isNil
             /\ last.resolved.cluster.ProviderSettings.set
             /\ last.resolved.cluster.ProviderSettings.ProviderName = "AWS"
             /\ last.resolved.cluster.ProviderSettings.InstanceSizeName = "M10"
        ELSE /\ last.resolved.err \in {ErrJSON, ErrCatalog}
             /\ last.resolved.isNil

\* C19: parameter resolution with an empty plan ID returns the cluster as
\* parsed from the user parameters: the provider settings are absent when the
\* user parameters hold none and hold the user's provider name, instance size
\* and region otherwise; the service ID is not looked up, and only malformed
\* user parameters give an error.
C19_NoPlanKeepsProvider ==
    (last.op = "resolved" /\ last.planID = "") =>
        LET user == last.rawParams
            settings == last.resolved.cluster.ProviderSettings
        IN  /\ (last.resolved.err # NoError) <=> (user.form = "malformed")
            /\ (last.resolved.err # NoError) => last.resolved.err = ErrJSON
            /\ (last.resolved.err = NoError) =>
                    /\ last.resolved.isNil <=> (user.form = "null")
                    /\ settings.set <=> (user.form = "object" /\ user.hasProvider)
                    /\ settings.set =>
                            /\ settings.ProviderName = user.ProviderName
                            /\ settings.InstanceSizeName = user.InstanceSizeName
                            /\ settings.RegionName = user.RegionName
                    /\ (~settings.set) => settings = NoProvider

\* C19 witness: resolution without a plan, for a service the catalog does not
\* hold, of user parameters without provider settings returned a cluster
\* without provider settings.
C19_Witness ==
    /\ last.op = "resolved"
    /\ last.planID = ""
    /\ last.serviceID = "unknown"
    /\ last.rawParams.form = "object"
    /\ ~last.rawParams.hasProvider
    /\ last.resolved.err = NoError
    /\ ~last.resolved.isNil
    /\ ~last.resolved.cluster.ProviderSettings.set

\* C20: a poll makes no create, update or delete call and leaves the remote
\* list unchanged, and the state it returns is the one the table gives for its
\* token and the remote list at the time of the call, whatever calls came
\* before.
C20_PollReadOnly ==
    [][(last'.op = "poll") =>
            /\ clusters' = clusters
            /\ \A i \in 1..Len(last'.calls) : last'.calls[i] \notin MutatingCalls
            /\ (last'.err = NoError) =>
                    last'.state =
                        PollOver(clusters, last'.instanceID, last'.details.OperationData)]_vars

\* C20 witness: a provision poll of an instance whose Deprovision was accepted
\* before found the cluster DELETING and returned failed, the list unchanged.
C20_Witness ==
    /\ Polled
    /\ last.details.OperationData = "provision"
    /\ last.instanceID \in deprovisioned
    /\ last.calls = <<"list">>
    /\ last.lookup.err = NoError
    /\ last.lookup.cluster.StateName = "DELETING"
    /\ last.state = "failed"

\* C21: when the remote system accepted an update of a cluster and has not
\* yet moved it to UPDATING, an update poll that finds the cluster still IDLE
\* returns succeeded, without error, although the update is not applied.
C21_StaleIdlePoll ==
    (/\ Polled
     /\ last.details.OperationData = "update"
     /\ last.lookup.err = NoError
     /\ last.lookup.cluster.Pending
     /\ last.lookup.cluster.StateName = "IDLE") =>
        /\ last.err = NoError
        /\ last.state = "succeeded"

\* C21 witness: after an accepted Update that the remote system has not
\* started, an update poll of the instance found its own cluster IDLE, the
\* update pending, and returned succeeded.
C21_Witness ==
    /\ Polled
    /\ last.details.OperationData = "update"
    /\ last.lookup.err = NoError
    /\ last.lookup.cluster.Label = last.instanceID
    /\ last.lookup.cluster.Pending
    /\ last.lookup.cluster.StateName = "IDLE"
    /\ last.state = "succeeded"
    /\ \E i \in CreatedFor(last.instanceID) :
            clusters[i].Pending /\ clusters[i].StateName = "IDLE"

\* C22: every cluster a Deprovision asks the remote system to delete has the
\* instance ID of the call as its label, after any sequence of Provisions,
\* also with display names and with instance IDs equal in their first 23
\* characters.
C22_DeprovisionOwnCluster ==
    (last.op = "deprovision" /\ last.calls = <<"list", "delete">>) =>
        /\ last.lookup.cluster.Label = last.instanceID
        /\ last.sent.Label = last.instanceID

\* C23: an Update that located a cluster and resolved a cluster from its
\* parameters ends in an accepted result with the token "update" or in a
\* returned error, for every located cluster, also one without a provider
\* settings object while the resolved cluster has provider settings with an
\* empty provider name or instance size; it never aborts while backfilling.
C23_UpdateEnds ==
    (/\ last.op = "update"
     /\ last.asyncAllowed
     /\ last.lookup.err = NoError
     /\ last.details.RawParameters.form # "null") =>
        /\ last.err # Panic
        /\ (last.err = NoError) <=> (last.token = "update")
        /\ (last.err # NoError) => (last.token = "")

====
